---- MODULE Spec2Model ----
(***************************************************************************)
(* Model of helm-chart/images/image-cleaner/image-cleaner.py: the image    *)
(* cleaner agent.  One agent is one run of main(); its position in main()  *)
(* is pc[a].  The container runtime, the filesystem and the orchestrator   *)
(* are the environment: every value they return is drawn from a small set. *)
(***************************************************************************)
EXTENDS Integers, Sequences, FiniteSets, TLC

\* Number of images the runtime can hold (size of the image pool).
MaxImages == 3
\* Largest block or inode total of a filesystem handed to the sampler on its own.
MaxTotal == 10

\* Defaults of IMAGE_GC_THRESHOLD_LOW / IMAGE_GC_THRESHOLD_HIGH.
gc_low == 60
gc_high == 80
\* Floor of the sleep after a ReadTimeout, and the poll interval.
TimeoutDelay == 30
PollInterval == 60

\* The agent instances: "cleaner" is the agent under study; "twin" is a second
\* instance, started only in SpecPair, that runs without NODE_NAME.
Agents == {"cleaner", "twin"}
Other(a) == IF a = "cleaner" THEN "twin" ELSE "cleaner"

\* os.getenv('NODE_NAME'): unset, or the name of the node.
NoNode == ""
NodeNames == {NoNode, "node-1"}
\* IMAGE_GC_DELAY values: the default, and one above the timeout floor.
Delays == {1, 45}

VARIABLES
    node,            \* [Agents -> NodeNames]: NODE_NAME of each agent
    delay,           \* [Agents -> Delays]: IMAGE_GC_DELAY
    pc,              \* position of each agent in main()
    used,            \* the variable `used` (line 102)
    sample,          \* the value of get_used_percent(...) in the loop condition (line
                     \* 123) until the branch taken on it has run; 0 otherwise
    images,          \* the list `images`
    images_before,   \* the variable `images_before`
    deleted,         \* the variable `deleted`
    log,             \* external operations of the current poll cycle, in order
    lastPatch,       \* last patch_node body sent by the agent: "none", "cordon", "uncordon"
    unschedulable,   \* spec.unschedulable of the agent's node object
    epoch,           \* parity of the number of poll cycles started
    feed,            \* SpecPair only: inputs consumed by one agent and not yet by the other
    statvfs,         \* SpecSampler only: the os.statvfs result handed to get_used_percent
    percent,         \* SpecSampler only: what get_used_percent did with it
    listed,          \* SpecSkip only: ids returned by the last client.images.list
    skipped,         \* SpecSkip only: id of the last image whose removal ended in 409, or 0
    extPatch         \* SpecRace only: the last patch by another actor: "none", "cordon", "uncordon"

vars == <<node, delay, pc, used, sample, images, images_before, deleted, log,
          lastPatch, unschedulable, epoch, feed, statvfs, percent, listed, skipped,
          extPatch>>

\* The variables that only one specification moves.
sampler == <<statvfs, percent>>
memo == <<listed, skipped>>
idle == <<feed, statvfs, percent, listed, skipped, extPatch>>

----------------------------------------------------------------------------
\* Usage sampler

\* os.statvfs results: blocks and inodes, available and total.
Stat(ba, fa) == [f_bavail |-> ba, f_blocks |-> 20, f_favail |-> fa, f_files |-> 20]
Stats == {Stat(9, 18), Stat(18, 8), Stat(6, 6), Stat(4, 10), Stat(12, 2)}

\* min(blocks_avail, inodes_avail) as a fraction <<numerator, denominator>>.
MinAvail(stat) ==
    IF stat.f_bavail * stat.f_files <= stat.f_favail * stat.f_blocks
    THEN <<stat.f_bavail, stat.f_blocks>>
    ELSE <<stat.f_favail, stat.f_files>>

\* 100 * (1 - min(blocks_avail, inodes_avail)); exact for the totals of Stats.
get_used_percent(stat) ==
    (100 * (MinAvail(stat)[2] - MinAvail(stat)[1])) \div MinAvail(stat)[2]

\* Any os.statvfs result with totals up to MaxTotal; a filesystem may report
\* no inodes or no blocks at all.
StatInputs ==
    {[f_bavail |-> ba, f_blocks |-> bt, f_favail |-> fa, f_files |-> ft] :
        <<ba, bt, fa, ft>> \in {q \in (0..MaxTotal) \X (0..MaxTotal) \X (0..MaxTotal) \X (0..MaxTotal) :
                                  q[1] <= q[2] /\ q[3] <= q[4]}}

NotSampled == [kind |-> "none", num |-> 0, den |-> 1]

\* get_used_percent on any statvfs result: the value returned, as the fraction
\* num / den, or the ZeroDivisionError of `/` on a zero total.
UsedPercent(stat) ==
    IF stat.f_files = 0 \/ stat.f_blocks = 0
    THEN [kind |-> "ZeroDivisionError", num |-> 0, den |-> 1]
    ELSE [kind |-> "return",
          num |-> 100 * (MinAvail(stat)[2] - MinAvail(stat)[1]),
          den |-> MinAvail(stat)[2]]

\* One call of get_used_percent.
Sample ==
    /\ percent = NotSampled
    /\ percent' = UsedPercent(statvfs)
    /\ UNCHANGED <<node, delay, pc, used, sample, images, images_before, deleted, log,
                   lastPatch, unschedulable, epoch, feed, statvfs, listed, skipped,
                   extPatch>>

----------------------------------------------------------------------------
\* Image inventory

ImageIds == 1..MaxImages
\* The images the runtime may hold: odd ids are untagged; sizes 5, 100, 50, 100, ...
Image(i) == [id |-> i,
             tags |-> IF i % 2 = 1 THEN <<>> ELSE <<"t">>,
             Size |-> CASE i % 4 = 1 -> 5 [] i % 4 = 2 -> 100
                        [] i % 4 = 3 -> 50 [] OTHER -> 100]
ImagePool == {Image(i) : i \in ImageIds}

\* client.images.list(all=True): any images of the pool, in any order.
Listings ==
    {s \in UNION {[1..n -> ImagePool] : n \in 0..MaxImages} :
        \A i, j \in DOMAIN s : i # j => s[i].id # s[j].id}

\* (image.tags, size): the `not` left out, so tagged images sort first.
image_key_tagged(image) == <<image.tags # <<>>, image.Size>>

\* (not image.tags, image.attrs['Size'])
image_key(image) == <<image.tags = <<>>, image.Size>>

\* Python's tuple order on keys: False < True, then by size.
KeyLess(k1, k2) ==
    \/ k1[1] = FALSE /\ k2[1] = TRUE
    \/ k1[1] = k2[1] /\ k1[2] < k2[2]

\* Place x after every element whose key is not less than x's (stable).
InsertReverse(s, x) ==
    LET kx == image_key(x)
        n == Cardinality({i \in DOMAIN s : ~KeyLess(image_key(s[i]), kx)})
    IN  SubSeq(s, 1, n) \o <<x>> \o SubSeq(s, n + 1, Len(s))

\* images.sort(key=image_key, reverse=True)
RECURSIVE SortReverse(_)
SortReverse(s) ==
    IF s = <<>> THEN <<>>
    ELSE LET sorted == SortReverse(SubSeq(s, 1, Len(s) - 1))
         IN  InsertReverse(sorted, s[Len(s)])

\* A listing without the image whose removal last ended in 409 Conflict.
Unskipped(image) == image.id # skipped
get_docker_images_unskipped(listing) == SortReverse(SelectSeq(listing, Unskipped))

get_docker_images(listing) == SortReverse(listing)

----------------------------------------------------------------------------
\* Log of external operations

Op(op, arg, res) == [op |-> op, arg |-> arg, res |-> res]
Logged(a, e) == log' = [log EXCEPT ![a] = Append(@, e)]
Goto(a, l) == pc' = [pc EXCEPT ![a] = l]

\* A patch that flips spec.unschedulable instead of setting it.
PatchNodeToggle(a, b, r) ==
    /\ lastPatch' = [lastPatch EXCEPT ![a] = IF b THEN "cordon" ELSE "uncordon"]
    /\ unschedulable' = [unschedulable EXCEPT ![a] = IF r = "ok" THEN ~@ ELSE @]

\* kube.patch_node(node, {"spec": {"unschedulable": b}}) with result r.
PatchNode(a, b, r) ==
    /\ lastPatch' = [lastPatch EXCEPT ![a] = IF b THEN "cordon" ELSE "uncordon"]
    /\ unschedulable' = [unschedulable EXCEPT ![a] = IF r = "ok" THEN b ELSE @]

cordon(a, r) == PatchNode(a, TRUE, r)

\* An uncordon that puts back a cordon another actor had set.
uncordonPreserving(a, r) == PatchNode(a, extPatch = "cordon", r)

uncordon(a, r) == PatchNode(a, FALSE, r)

KubeResults == {"ok", "error"}

\* `if node:` with every agent taken to have a node.
NodeConfiguredAlways(a) == TRUE

\* `if node:`
NodeConfigured(a) == node[a] # NoNode

----------------------------------------------------------------------------
\* main()

\* Startup that goes on without a node check that passed.
StartupDegraded(a, r) ==
    /\ pc[a] = "start"
    /\ IF NodeConfigured(a)
       THEN Logged(a, Op("read_node", 0, r))
       ELSE r = "ok" /\ UNCHANGED log
    /\ Goto(a, "init_list")
    /\ UNCHANGED <<node, delay, used, sample, images, images_before, deleted,
                   lastPatch, unschedulable, epoch>>

\* Lines 80-90: read the configuration; with a node, kube.read_node(node).
Startup(a, r) ==
    /\ pc[a] = "start"
    /\ IF NodeConfigured(a)
       THEN /\ Logged(a, Op("read_node", 0, r))
            /\ Goto(a, IF r = "ok" THEN "init_list" ELSE "crashed")
       ELSE /\ r = "ok"
            /\ Goto(a, "init_list")
            /\ UNCHANGED log
    /\ UNCHANGED <<node, delay, used, sample, images, images_before, deleted,
                   lastPatch, unschedulable, epoch>>

\* Lines 92-99: images = get_docker_images(client).
InitList(a, listing) ==
    /\ pc[a] = "init_list"
    /\ images' = [images EXCEPT ![a] = get_docker_images(listing)]
    /\ Logged(a, Op("list", Len(listing), ""))
    /\ Goto(a, "poll")
    /\ UNCHANGED <<node, delay, used, sample, images_before, deleted,
                   lastPatch, unschedulable, epoch>>

\* `used <= gc_high`: a pass needs usage strictly above the high threshold.
EnoughSpaceInclusive(u) == u <= gc_high

\* Line 104: used < gc_high
EnoughSpace(u) == u < gc_high

\* Lines 101-106: used = get_used_percent(path_to_check); if used < gc_high: pass.
Poll(a, stat) ==
    /\ pc[a] = "poll"
    /\ used' = [used EXCEPT ![a] = get_used_percent(stat)]
    /\ log' = [log EXCEPT ![a] = <<Op("sample", 0, "")>>]
    /\ epoch' = [epoch EXCEPT ![a] = 1 - @]
    /\ Goto(a, IF EnoughSpace(get_used_percent(stat)) THEN "sleep_poll" ELSE "list")
    /\ UNCHANGED <<node, delay, sample, images, images_before, deleted, lastPatch,
                   unschedulable>>

\* Lines 108-115: images = get_docker_images(client); images_before = len(images).
List(a, listing) ==
    /\ pc[a] = "list"
    /\ images' = [images EXCEPT ![a] = get_docker_images(listing)]
    /\ images_before' = [images_before EXCEPT ![a] = Len(images'[a])]
    /\ Logged(a, Op("list", Len(listing), ""))
    /\ Goto(a, "pass_cordon")
    /\ UNCHANGED <<node, delay, used, sample, deleted, lastPatch, unschedulable, epoch>>

\* Lines 117-121: if node: cordon(kube, node); deleted = 0.
PassCordon(a, r) ==
    /\ pc[a] = "pass_cordon"
    /\ IF NodeConfigured(a)
       THEN /\ cordon(a, r)
            /\ Logged(a, Op("cordon", 0, r))
            /\ Goto(a, IF r = "ok" THEN "loop" ELSE "crashed")
       ELSE /\ r = "ok"
            /\ Goto(a, "loop")
            /\ UNCHANGED <<log, lastPatch, unschedulable>>
    /\ deleted' = [deleted EXCEPT ![a] = IF pc'[a] = "loop" THEN 0 ELSE @]
    /\ UNCHANGED <<node, delay, used, sample, images, images_before, epoch>>

\* `> gc_high`: the loop stops as soon as usage is back under the high threshold.
StillFullAboveHigh(u) == u > gc_high

\* `>= gc_low`: the loop goes on at a sample equal to the low threshold.
StillFullInclusive(u) == u >= gc_low

\* Line 123: get_used_percent(path_to_check) > gc_low
StillFull(u) == u > gc_low

\* Line 123, `images` empty: the condition is false and usage is not sampled.
LoopExhausted(a) ==
    /\ pc[a] = "loop"
    /\ images[a] = <<>>
    /\ Goto(a, "uncordon")
    /\ UNCHANGED <<node, delay, used, sample, images, images_before, deleted, log,
                   lastPatch, unschedulable, epoch>>

\* Line 123, `images` not empty: get_used_percent(path_to_check) > gc_low.
LoopSample(a, stat) ==
    /\ pc[a] = "loop"
    /\ images[a] # <<>>
    /\ sample' = [sample EXCEPT ![a] = get_used_percent(stat)]
    /\ Logged(a, Op("sample", 0, ""))
    /\ Goto(a, IF StillFull(get_used_percent(stat)) THEN "iter_cordon" ELSE "uncordon")
    /\ UNCHANGED <<node, delay, used, images, images_before, deleted,
                   lastPatch, unschedulable, epoch>>

\* A loop that relies on the cordon made at the start of the pass.
IterCordonOnce(a, r) ==
    /\ pc[a] = "iter_cordon"
    /\ r = "ok"
    /\ Goto(a, "remove")
    /\ sample' = [sample EXCEPT ![a] = 0]
    /\ UNCHANGED <<node, delay, used, images, images_before, deleted, epoch,
                   log, lastPatch, unschedulable>>

\* Lines 124-127: if node: cordon(kube, node).
IterCordon(a, r) ==
    /\ pc[a] = "iter_cordon"
    /\ IF NodeConfigured(a)
       THEN /\ cordon(a, r)
            /\ Logged(a, Op("cordon", 0, r))
            /\ Goto(a, IF r = "ok" THEN "remove" ELSE "crashed")
       ELSE /\ r = "ok"
            /\ Goto(a, "remove")
            /\ UNCHANGED <<log, lastPatch, unschedulable>>
    /\ sample' = [sample EXCEPT ![a] = 0]
    /\ UNCHANGED <<node, delay, used, images, images_before, deleted, epoch>>

\* Results of client.images.remove: removed, APIError 409, APIError 404,
\* requests ReadTimeout, any other APIError.
DeleteOutcomes == {"ok", "409", "404", "timeout", "500"}

\* Every APIError logged and skipped, whatever its status code.
AfterRemoveSwallow(o) ==
    CASE o = "ok" -> "sleep_delay"
      [] o \in {"409", "404", "500"} -> "loop"
      [] OTHER -> "sleep_timeout"

\* The inter-deletion sleep after every attempt that did not time out or fail.
AfterRemoveSleepAlways(o) ==
    CASE o \in {"ok", "409", "404"} -> "sleep_delay"
      [] o = "timeout" -> "sleep_timeout"
      [] OTHER -> "crashed"

\* Where main() continues after client.images.remove ended with outcome o.
AfterRemove(o) ==
    CASE o = "ok" -> "sleep_delay"
      [] o \in {"409", "404"} -> "loop"
      [] o = "timeout" -> "sleep_timeout"
      [] OTHER -> "crashed"

\* A removal that puts the image back at the front after a timeout.
RemoveRetryTimeout(a, o) ==
    /\ pc[a] = "remove"
    /\ images' = [images EXCEPT ![a] = IF o = "timeout" THEN @ ELSE Tail(@)]
    /\ Logged(a, Op("delete", Head(images[a]).id, o))
    /\ Goto(a, AfterRemove(o))
    /\ UNCHANGED <<node, delay, used, sample, images_before, deleted,
                   lastPatch, unschedulable, epoch>>

\* Lines 129-139 and the except clauses 144-154:
\* image = images.pop(0); client.images.remove(image=image.id, force=True).
Remove(a, o) ==
    /\ pc[a] = "remove"
    /\ images' = [images EXCEPT ![a] = Tail(@)]
    /\ Logged(a, Op("delete", Head(images[a]).id, o))
    /\ Goto(a, AfterRemove(o))
    /\ UNCHANGED <<node, delay, used, sample, images_before, deleted,
                   lastPatch, unschedulable, epoch>>

\* Lines 143 and 157-158: time.sleep(delay), then the else clause: deleted += 1.
SleepDelay(a) ==
    /\ pc[a] = "sleep_delay"
    /\ Logged(a, Op("sleep", delay[a], ""))
    /\ deleted' = [deleted EXCEPT ![a] = @ + 1]
    /\ Goto(a, "loop")
    /\ UNCHANGED <<node, delay, used, sample, images, images_before,
                   lastPatch, unschedulable, epoch>>

\* min(delay, 30)
TimeoutSleepMin(d) == IF d < TimeoutDelay THEN d ELSE TimeoutDelay

\* max(delay, 30)
TimeoutSleep(d) == IF d > TimeoutDelay THEN d ELSE TimeoutDelay

\* Line 156: time.sleep(max(delay, 30)).
SleepTimeout(a) ==
    /\ pc[a] = "sleep_timeout"
    /\ Logged(a, Op("sleep", TimeoutSleep(delay[a]), ""))
    /\ Goto(a, "loop")
    /\ UNCHANGED <<node, delay, used, sample, images, images_before, deleted,
                   lastPatch, unschedulable, epoch>>

\* Uncordon only when the loop stopped on the threshold, not on an empty list.
UncordonUnlessExhausted(a, r) ==
    /\ pc[a] = "uncordon"
    /\ IF NodeConfigured(a) /\ images[a] # <<>>
       THEN /\ uncordon(a, r)
            /\ Logged(a, Op("uncordon", 0, r))
            /\ Goto(a, IF r = "ok" THEN "summary" ELSE "crashed")
       ELSE /\ r = "ok"
            /\ Goto(a, "summary")
            /\ UNCHANGED <<log, lastPatch, unschedulable>>
    /\ sample' = [sample EXCEPT ![a] = 0]
    /\ UNCHANGED <<node, delay, used, images, images_before, deleted, epoch>>

\* Lines 160-162: if node: uncordon(kube, node).
Uncordon(a, r) ==
    /\ pc[a] = "uncordon"
    /\ IF NodeConfigured(a)
       THEN /\ uncordon(a, r)
            /\ Logged(a, Op("uncordon", 0, r))
            /\ Goto(a, IF r = "ok" THEN "summary" ELSE "crashed")
       ELSE /\ r = "ok"
            /\ Goto(a, "summary")
            /\ UNCHANGED <<log, lastPatch, unschedulable>>
    /\ sample' = [sample EXCEPT ![a] = 0]
    /\ UNCHANGED <<node, delay, used, images, images_before, deleted, epoch>>

\* images_deleted = images_before - len(images)
images_deleted(a) == images_before[a] - Len(images[a])

\* Lines 164-167: log "Deleted {images_deleted} images in ... seconds".
Summary(a) ==
    /\ pc[a] = "summary"
    /\ Logged(a, Op("summary", images_deleted(a), ""))
    /\ Goto(a, "sleep_poll")
    /\ UNCHANGED <<node, delay, used, sample, images, images_before, deleted,
                   lastPatch, unschedulable, epoch>>

\* Line 169: time.sleep(60).
SleepPoll(a) ==
    /\ pc[a] = "sleep_poll"
    /\ Logged(a, Op("sleep", PollInterval, ""))
    /\ Goto(a, "poll")
    /\ UNCHANGED <<node, delay, used, sample, images, images_before, deleted,
                   lastPatch, unschedulable, epoch>>

\* Another actor patches spec.unschedulable of the agent's node.
ExternalPatch(a, b) ==
    /\ pc[a] # "off"
    /\ node[a] # NoNode
    /\ unschedulable[a] # b
    /\ unschedulable' = [unschedulable EXCEPT ![a] = b]
    /\ UNCHANGED <<node, delay, pc, used, sample, images, images_before, deleted,
                   log, lastPatch, epoch>>

----------------------------------------------------------------------------
\* One agent

InitCommon ==
    /\ used = [a \in Agents |-> 0]
    /\ sample = [a \in Agents |-> 0]
    /\ images = [a \in Agents |-> <<>>]
    /\ images_before = [a \in Agents |-> 0]
    /\ deleted = [a \in Agents |-> 0]
    /\ log = [a \in Agents |-> <<>>]
    /\ lastPatch = [a \in Agents |-> "none"]
    /\ epoch = [a \in Agents |-> 0]
    /\ feed = <<>>
    /\ listed = {}
    /\ skipped = 0
    /\ extPatch = "none"
    /\ percent = NotSampled

Init ==
    /\ InitCommon
    /\ node \in {f \in [Agents -> NodeNames] : f["twin"] = NoNode}
    /\ delay \in {f \in [Agents -> Delays] : f["twin"] = f["cleaner"]}
    /\ pc = [a \in Agents |-> IF a = "cleaner" THEN "start" ELSE "off"]
    /\ unschedulable = [a \in Agents |-> FALSE]
    /\ statvfs = Stat(9, 18)

\* The steps that take no value shared between an agent and its twin.
OwnStep(a) ==
    \/ \E r \in KubeResults : Startup(a, r)
    \/ \E r \in KubeResults : PassCordon(a, r)
    \/ LoopExhausted(a)
    \/ \E r \in KubeResults : IterCordon(a, r)
    \/ SleepDelay(a)
    \/ SleepTimeout(a)
    \/ \E r \in KubeResults : Uncordon(a, r)
    \/ Summary(a)
    \/ SleepPoll(a)

Next ==
    \/ \E a \in Agents : OwnStep(a) /\ UNCHANGED idle
    \/ \E a \in Agents :
           pc[a] = "init_list" /\ \E l \in Listings : InitList(a, l) /\ UNCHANGED idle
    \/ \E a \in Agents :
           pc[a] = "poll" /\ \E s \in Stats : Poll(a, s) /\ UNCHANGED idle
    \/ \E a \in Agents :
           pc[a] = "list" /\ \E l \in Listings : List(a, l) /\ UNCHANGED idle
    \/ \E a \in Agents :
           pc[a] = "loop" /\ \E s \in Stats : LoopSample(a, s) /\ UNCHANGED idle
    \/ \E a \in Agents :
           pc[a] = "remove" /\ \E o \in DeleteOutcomes : Remove(a, o) /\ UNCHANGED idle

Spec == Init /\ [][Next]_vars

\* The agent with a node, when every call it makes returns, with a result or an
\* exception.
InitLive == Init /\ NodeConfigured("cleaner")

SpecLive == InitLive /\ [][Next]_vars /\ WF_vars(Next)

\* The agent, and other actors patching its node.
NextRace ==
    \/ Next
    \/ \E a \in Agents, b \in BOOLEAN :
           /\ ExternalPatch(a, b)
           /\ extPatch' = IF b THEN "cordon" ELSE "uncordon"
           /\ UNCHANGED <<feed, sampler, memo>>

\* The agent runs with a node, which may be cordoned before the agent starts.
InitRace ==
    /\ used = [a \in Agents |-> 0]
    /\ sample = [a \in Agents |-> 0]
    /\ images = [a \in Agents |-> <<>>]
    /\ images_before = [a \in Agents |-> 0]
    /\ deleted = [a \in Agents |-> 0]
    /\ log = [a \in Agents |-> <<>>]
    /\ lastPatch = [a \in Agents |-> "none"]
    /\ epoch = [a \in Agents |-> 0]
    /\ feed = <<>>
    /\ listed = {}
    /\ skipped = 0
    /\ percent = NotSampled
    /\ statvfs = Stat(9, 18)
    /\ node = [a \in Agents |-> IF a = "cleaner" THEN "node-1" ELSE NoNode]
    /\ delay \in {f \in [Agents -> Delays] : f["twin"] = f["cleaner"]}
    /\ pc = [a \in Agents |-> IF a = "cleaner" THEN "start" ELSE "off"]
    /\ unschedulable \in {f \in [Agents -> BOOLEAN] : ~f["twin"]}
    /\ extPatch = IF unschedulable["cleaner"] THEN "cordon" ELSE "none"

SpecRace == InitRace /\ [][NextRace]_vars

----------------------------------------------------------------------------
\* Two agents on the same inputs: "cleaner" with NODE_NAME set, "twin" without.
\* The cleaner takes each list, sample and delete result from the environment and
\* leaves it in `feed`; the twin then takes the same value.  The twin moves while
\* a value waits for it, or while the cleaner waits at the top of the poll loop.

InitPair ==
    /\ InitCommon
    /\ node = [a \in Agents |-> IF a = "cleaner" THEN "node-1" ELSE NoNode]
    /\ delay \in {f \in [Agents -> Delays] : f["twin"] = f["cleaner"]}
    /\ pc = [a \in Agents |-> "start"]
    /\ unschedulable = [a \in Agents |-> FALSE]
    /\ statvfs = Stat(9, 18)

Give(k, x) == feed = <<>> /\ feed' = <<[kind |-> k, val |-> x]>>

Take(k, x) ==
    IF feed # <<>> /\ feed[1].kind = k
    THEN feed[1].val = x /\ feed' = <<>>
    ELSE feed' = <<>>

TwinMay == feed # <<>> \/ pc["cleaner"] = "poll"

PairStep ==
    \/ feed = <<>> /\ OwnStep("cleaner") /\ UNCHANGED feed
    \/ pc["cleaner"] = "init_list" /\ feed = <<>>
           /\ \E l \in Listings : InitList("cleaner", l) /\ Give("list", l)
    \/ pc["cleaner"] = "poll" /\ feed = <<>> /\ pc["twin"] = "poll"
           /\ \E s \in Stats : Poll("cleaner", s) /\ Give("stat", s)
    \/ pc["cleaner"] = "list" /\ feed = <<>>
           /\ \E l \in Listings : List("cleaner", l) /\ Give("list", l)
    \/ pc["cleaner"] = "loop" /\ feed = <<>>
           /\ \E s \in Stats : LoopSample("cleaner", s) /\ Give("stat", s)
    \/ pc["cleaner"] = "remove" /\ feed = <<>>
           /\ \E o \in DeleteOutcomes : Remove("cleaner", o) /\ Give("outcome", o)
    \/ TwinMay /\ OwnStep("twin") /\ UNCHANGED feed
    \/ pc["twin"] = "init_list" /\ TwinMay
           /\ \E l \in Listings : Take("list", l) /\ InitList("twin", l)
    \/ pc["twin"] = "poll" /\ feed # <<>>
           /\ \E s \in Stats : Take("stat", s) /\ Poll("twin", s)
    \/ pc["twin"] = "list" /\ TwinMay
           /\ \E l \in Listings : Take("list", l) /\ List("twin", l)
    \/ pc["twin"] = "loop" /\ TwinMay
           /\ \E s \in Stats : Take("stat", s) /\ LoopSample("twin", s)
    \/ pc["twin"] = "remove" /\ TwinMay
           /\ \E o \in DeleteOutcomes : Take("outcome", o) /\ Remove("twin", o)

NextPair == PairStep /\ UNCHANGED <<sampler, memo, extPatch>>

SpecPair == InitPair /\ [][NextPair]_vars

----------------------------------------------------------------------------
\* One agent, with two notes kept beside it: the ids the runtime returned at the
\* last list call, and the last image whose removal ended in 409 Conflict.

Listed(listing) == {listing[i].id : i \in DOMAIN listing}

NextSkip ==
    \/ \E a \in Agents : OwnStep(a) /\ UNCHANGED idle
    \/ \E a \in Agents :
           /\ pc[a] = "init_list"
           /\ \E l \in Listings : InitList(a, l) /\ listed' = Listed(l)
           /\ UNCHANGED <<feed, sampler, skipped, extPatch>>
    \/ \E a \in Agents :
           pc[a] = "poll" /\ \E s \in Stats : Poll(a, s) /\ UNCHANGED idle
    \/ \E a \in Agents :
           /\ pc[a] = "list"
           /\ \E l \in Listings : List(a, l) /\ listed' = Listed(l)
           /\ UNCHANGED <<feed, sampler, skipped, extPatch>>
    \/ \E a \in Agents :
           pc[a] = "loop" /\ \E s \in Stats : LoopSample(a, s) /\ UNCHANGED idle
    \/ \E a \in Agents :
           /\ pc[a] = "remove"
           /\ \E o \in DeleteOutcomes :
                  /\ Remove(a, o)
                  /\ skipped' = IF o = "409" THEN Head(images[a]).id ELSE skipped
           /\ UNCHANGED <<feed, sampler, listed, extPatch>>

SpecSkip == Init /\ [][NextSkip]_vars

----------------------------------------------------------------------------
\* The sampler on its own: one call of get_used_percent on any statvfs result.

InitSampler ==
    /\ InitCommon
    /\ node = [a \in Agents |-> NoNode]
    /\ delay = [a \in Agents |-> 1]
    /\ pc = [a \in Agents |-> "off"]
    /\ unschedulable = [a \in Agents |-> FALSE]
    /\ statvfs \in StatInputs

NextSampler == Sample

SpecSampler == InitSampler /\ [][NextSampler]_vars

----------------------------------------------------------------------------
\* Properties

\* Positions of the operations named o in the log of agent a.
Ops(a, o) == {i \in DOMAIN log[a] : log[a][i].op = o}
\* Positions of the delete attempts of agent a that ended with outcome o.
Deletes(a, o) == {i \in Ops(a, "delete") : log[a][i].res = o}
\* The current poll cycle of agent a started an eviction pass.
PassLog(a) == Len(log[a]) >= 2 /\ log[a][1].op = "sample" /\ log[a][2].op = "list"
\* The agent is inside an eviction pass, its uncordon not yet sent.
InPass(a) ==
    pc[a] \in {"list", "pass_cordon", "loop", "iter_cordon", "remove",
               "sleep_delay", "sleep_timeout", "uncordon"}

\* C1 (as stated): a pass is triggered by a sample >= gc_high and its deletion loop
\* exits only when the in-pass sample is strictly below gc_low or no candidate is left.
C1_ExitStrictlyBelowLow ==
    \A a \in Agents :
        pc[a] = "uncordon" =>
            used[a] >= gc_high /\ (images[a] = <<>> \/ sample[a] < gc_low)

\* C1 (amended): a pass is triggered by a sample >= gc_high and its deletion loop
\* exits only when the in-pass sample is at or below gc_low or no candidate is
\* left; a sample above gc_low, below gc_high or not, never ends it while
\* candidates remain.
C1_Hysteresis ==
    \A a \in Agents :
        /\ pc[a] = "uncordon" =>
               used[a] >= gc_high /\ (images[a] = <<>> \/ sample[a] <= gc_low)
        /\ pc[a] = "iter_cordon" =>
               used[a] >= gc_high /\ images[a] # <<>> /\ sample[a] > gc_low

\* A pass that kept deleting on a sample between the thresholds, and then ended on
\* a sample equal to gc_low with candidates left.
C1_Witness ==
    \E a \in Agents :
        /\ pc[a] = "uncordon"
        /\ images[a] # <<>>
        /\ sample[a] = gc_low
        /\ Ops(a, "delete") # {}

\* A node call of the current cycle of agent a failed.
KubeFailed(a) == \E i \in DOMAIN log[a] : log[a][i].res = "error"

\* C2: with a node configured, whenever the agent is outside an eviction pass
\* (waiting for the next poll, or terminated for any reason), the last node patch
\* it sent, if any, is the uncordon.  Stated for the runs in which every node call
\* itself succeeded.
C2_NeverLeftCordoned ==
    \A a \in Agents :
        (node[a] # NoNode /\ ~InPass(a) /\ ~KubeFailed(a)) =>
            lastPatch[a] \in {"none", "uncordon"}

\* C3: with a node configured, a pass whose deletion loop exited normally sends
\* exactly one uncordon, after every cordon and every delete attempt of the pass
\* and before the summary and the poll sleep.
C3_OneUncordonOnExit ==
    \A a \in Agents :
        node[a] # NoNode =>
            /\ (pc[a] = "summary" \/ (PassLog(a) /\ pc[a] \in {"sleep_poll", "poll"})) =>
                   Cardinality(Ops(a, "uncordon")) = 1
            /\ \A i \in Ops(a, "uncordon") :
                   /\ \A j \in Ops(a, "cordon") \cup Ops(a, "delete") : j < i
                   /\ \A j \in Ops(a, "summary") : j > i
                   /\ \A j \in Ops(a, "sleep") : log[a][j].arg = PollInterval => j > i
            /\ Ops(a, "summary") # {} => Ops(a, "uncordon") # {}

\* A finished pass with a node: cordons, a delete attempt, the uncordon, the summary.
C3_Witness ==
    \E a \in Agents :
        /\ node[a] # NoNode
        /\ pc[a] = "sleep_poll"
        /\ Ops(a, "delete") # {}
        /\ Cardinality(Ops(a, "cordon")) >= 2
        /\ Ops(a, "uncordon") # {}
        /\ Ops(a, "summary") # {}

\* C4: a pass whose image list is empty makes no delete attempt and sends neither
\* a cordon nor an uncordon, with or without a node configured.
C4_EmptyInventoryNoPatch ==
    \A a \in Agents :
        (PassLog(a) /\ log[a][2].arg = 0) =>
            Ops(a, "delete") \cup Ops(a, "cordon") \cup Ops(a, "uncordon") = {}

\* C5: a delete attempt that ends in 409 or 404 leaves the agent at the loop
\* condition (the next sample); one that ends in any other API error terminates
\* the process, and a terminated process performs no further operation.
C5_DeleteOutcomes ==
    [][\A a \in Agents :
          /\ (pc[a] = "remove" /\ pc'[a] # "remove") =>
                 LET o == log'[a][Len(log'[a])].res
                 IN  /\ o \in {"409", "404"} => pc'[a] = "loop"
                     /\ o = "500" => pc'[a] = "crashed"
          /\ pc[a] = "crashed" => (pc'[a] = "crashed" /\ log'[a] = log[a])]_vars

\* A process terminated by a fatal delete error, after attempts that ended in 409
\* and in 404 and did not stop the pass.
C5_Witness ==
    \E a \in Agents :
        /\ pc[a] = "crashed"
        /\ \E i \in Deletes(a, "500") : i = Len(log[a])
        /\ \E i \in Deletes(a, "409"), j \in Deletes(a, "404") :
               \E k \in Ops(a, "sample") : k > i /\ k > j

\* C6: a delete attempt that timed out is followed at once by a sleep of at least
\* max(delay, 30) seconds, and after it by the loop condition (the next sample, or
\* the end of the pass when no candidate is left), not by termination.
C6_TimeoutBackoff ==
    \A a \in Agents :
        \A i \in Deletes(a, "timeout") :
            /\ i = Len(log[a]) => pc[a] = "sleep_timeout"
            /\ i < Len(log[a]) =>
                   /\ log[a][i + 1].op = "sleep"
                   /\ log[a][i + 1].arg >= delay[a]
                   /\ log[a][i + 1].arg >= TimeoutDelay
            /\ i + 1 = Len(log[a]) => pc[a] \in {"loop", "uncordon", "summary"}
            /\ i + 1 < Len(log[a]) =>
                   log[a][i + 2].op \in {"sample", "uncordon", "summary"}

\* A timeout with a configured delay above 30, slept out, and the next sample taken.
C6_Witness ==
    \E a \in Agents :
        /\ delay[a] > TimeoutDelay
        /\ \E i \in Deletes(a, "timeout") :
               i + 2 <= Len(log[a]) /\ log[a][i + 2].op = "sample"

\* C7: the count of the pass summary is the number of delete attempts of the pass
\* that succeeded.
C7_SummaryCountsSuccesses ==
    \A a \in Agents :
        \A i \in Ops(a, "summary") :
            log[a][i].arg = Cardinality(Deletes(a, "ok"))

\* The deletion policy: untagged before tagged, larger before smaller in a class.
Untagged(image) == Len(image.tags) = 0
Precedes(x, y) ==
    \/ Untagged(x) /\ ~Untagged(y)
    \/ Untagged(x) = Untagged(y) /\ x.Size > y.Size

C9_Trigger ==
    \A a \in Agents :
        (log[a] # <<>> /\ log[a][1].op = "sample") =>
            /\ used[a] >= gc_high => (pc[a] = "list" \/ PassLog(a))
            /\ used[a] < gc_high =>
                   /\ pc[a] \in {"sleep_poll", "poll"}
                   /\ \A i \in DOMAIN log[a] :
                          i > 1 => (i = 2 /\ log[a][i] = Op("sleep", PollInterval, ""))

\* A pass started on a sample equal to gc_high.
C9_Witness ==
    \E a \in Agents : used[a] = gc_high /\ PassLog(a) /\ pc[a] = "pass_cordon"

\* The list, sample, delete and sleep operations of a log.
IsRuntimeOp(e) == e.op \notin {"read_node", "cordon", "uncordon"}
Runtime(l) == SelectSeq(l, IsRuntimeOp)

IsPrefix(s, t) == Len(s) <= Len(t) /\ SubSeq(t, 1, Len(s)) = s

\* C10: an agent without a node sends no node read, cordon or uncordon; and on the
\* same samples, image lists and delete outcomes its list, sample, delete and
\* sleep operations are those of the agent with a node: within a poll cycle one
\* sequence extends the other, and at the end of the cycle they are equal.
C10_NoNodeSameRuntimeOps ==
    /\ \A a \in Agents :
           node[a] = NoNode =>
               Ops(a, "read_node") \cup Ops(a, "cordon") \cup Ops(a, "uncordon") = {}
    /\ epoch["cleaner"] = epoch["twin"] =>
           /\ IsPrefix(Runtime(log["twin"]), Runtime(log["cleaner"]))
           /\ (pc["cleaner"] = "poll" /\ pc["twin"] = "poll") =>
                  Runtime(log["twin"]) = Runtime(log["cleaner"])
    /\ (feed # <<>> /\ pc["twin"] \in {"init_list", "list"}) => feed[1].kind = "list"
    /\ (feed # <<>> /\ pc["twin"] = "remove") => feed[1].kind = "outcome"
    /\ (feed # <<>> /\ pc["twin"] = "poll") => feed[1].kind = "stat"

\* Both agents at the end of a pass with a successful delete and a timeout.
C10_Witness ==
    /\ pc["cleaner"] = "poll" /\ pc["twin"] = "poll"
    /\ epoch["cleaner"] = epoch["twin"]
    /\ node["cleaner"] # NoNode /\ node["twin"] = NoNode
    /\ Deletes("twin", "ok") # {} /\ Deletes("twin", "timeout") # {}
    /\ Ops("cleaner", "uncordon") # {}
    /\ Ops("twin", "summary") # {}

\* C11: whatever the filesystem reports with available <= total, for blocks and
\* for inodes, the sampler returns a value between 0 and 100 that is
\* 100 * (1 - min(blocks available / blocks total, inodes available / inodes
\* total)): the fuller of the two utilisations.
C11_SamplerReturnsPercent ==
    percent # NotSampled =>
        /\ percent.kind = "return"
        /\ statvfs.f_blocks > 0 /\ statvfs.f_files > 0
        /\ 0 <= percent.num /\ percent.num <= 100 * percent.den
        /\ percent.num * statvfs.f_blocks
               >= 100 * (statvfs.f_blocks - statvfs.f_bavail) * percent.den
        /\ percent.num * statvfs.f_files
               >= 100 * (statvfs.f_files - statvfs.f_favail) * percent.den
        /\ \/ percent.num * statvfs.f_blocks
                  = 100 * (statvfs.f_blocks - statvfs.f_bavail) * percent.den
           \/ percent.num * statvfs.f_files
                  = 100 * (statvfs.f_files - statvfs.f_favail) * percent.den

\* The same, for filesystems that report at least one block and one inode.
SamplerPercentOnPositiveTotals ==
    (statvfs.f_blocks > 0 /\ statvfs.f_files > 0) => C11_SamplerReturnsPercent

\* The agent has not yet reached the top of its poll loop for the first time.
Starting(a) == log[a] = <<>> \/ log[a][1].op # "sample"

\* C12: with a node name configured, the node is read exactly once: it is the
\* first operation of the process, ahead of any usage sample, image list, cordon
\* or delete, and no poll cycle reads it again; if the read fails the process
\* stops having done nothing else.
C12_StartupCheck ==
    \A a \in Agents : node[a] # NoNode =>
        /\ Ops(a, "read_node") \subseteq {1}
        /\ (pc[a] \notin {"off", "start"} /\ Starting(a)) => Ops(a, "read_node") = {1}
        /\ \A i \in Ops(a, "read_node") :
               log[a][i].res = "error" =>
                   /\ pc[a] = "crashed"
                   /\ Len(log[a]) = 1
                   /\ lastPatch[a] = "none"
                   /\ images[a] = <<>>

C12_Witness ==
    \E a \in Agents :
        /\ node[a] # NoNode
        /\ pc[a] = "crashed"
        /\ log[a] = <<Op("read_node", 0, "error")>>

\* The step appended entry e to the log of agent a.
Did(a, o) ==
    /\ Len(log'[a]) = Len(log[a]) + 1
    /\ log'[a][Len(log'[a])].op = o
    /\ log'[a][Len(log'[a])].res = "ok"

\* C13: whatever the node's state, a cordon that went through leaves it
\* unschedulable, so a second cordon leaves what the first left; an uncordon
\* that went through leaves it schedulable, however many cordons came before.
C13_CordonIdempotent ==
    [][\A a \in Agents :
          /\ Did(a, "cordon") => unschedulable'[a]
          /\ Did(a, "uncordon") => ~unschedulable'[a]]_vars

C13_Witness ==
    \E a \in Agents :
        /\ pc[a] = "summary"
        /\ Cardinality(Ops(a, "cordon")) >= 2
        /\ log[a][Len(log[a])] = Op("uncordon", 0, "ok")
        /\ ~unschedulable[a]

\* C14: with a node configured and another actor free to uncordon it at any
\* time, the operation right before every delete attempt is a cordon by the
\* agent that went through, made in the same loop iteration, after which the
\* node is unschedulable whatever the other actor had done to it.
C14_RecordonBeforeDelete ==
    [][\A a \in Agents : node[a] # NoNode =>
          /\ \A i \in {j \in DOMAIN log'[a] : log'[a][j].op = "delete"} :
                 i > 1 /\ log'[a][i - 1] = Op("cordon", 0, "ok")
          /\ pc'[a] = "remove" => log'[a][Len(log'[a])] = Op("cordon", 0, "ok")
          /\ (pc[a] = "iter_cordon" /\ pc'[a] = "remove") => unschedulable'[a]]_vars

C14_Witness ==
    \E a \in Agents :
        /\ pc[a] = "remove"
        /\ Ops(a, "delete") # {}
        /\ extPatch = "uncordon"
        /\ unschedulable[a]

\* C20: a cordon set by someone else is not kept: with a node configured, the
\* uncordon that ends a pass leaves the node schedulable even if it was
\* cordoned before the agent's pass or by another actor during it, and the
\* agent does not change that until its next pass.
C20_PreexistingCordonLost ==
    [][\A a \in Agents : node[a] # NoNode =>
          /\ (pc[a] = "uncordon" /\ pc'[a] = "summary") => ~unschedulable'[a]
          /\ (pc[a] \in {"summary", "sleep_poll", "poll", "list"} /\ pc'[a] # pc[a])
                 => unschedulable'[a] = unschedulable[a]]_vars

C20_Witness ==
    \E a \in Agents :
        /\ pc[a] = "summary"
        /\ extPatch = "cordon"
        /\ Ops(a, "delete") # {}
        /\ log[a][Len(log[a])] = Op("uncordon", 0, "ok")
        /\ ~unschedulable[a]

\* Between the list call of a pass and its summary.
AfterList(a) == pc[a] \in {"pass_cordon", "loop", "iter_cordon", "remove",
                            "sleep_delay", "sleep_timeout", "uncordon", "summary"}
\* Ids of the images in the sequence s.
IdsOf(s) == {s[i].id : i \in DOMAIN s}
\* What is left of the snapshot of agent a: the list call is the second entry of
\* the cycle and the only one, each attempt took one image, and no image was
\* attempted twice or is still waiting after its attempt.
SnapshotConsumed(a) ==
    /\ PassLog(a)
    /\ Ops(a, "list") = {2}
    /\ Len(images[a]) + Cardinality(Ops(a, "delete")) = images_before[a]
    /\ \A i, j \in Ops(a, "delete") : log[a][i].arg = log[a][j].arg => i = j
    /\ \A i \in Ops(a, "delete") : log[a][i].arg \notin IdsOf(images[a])

\* C15: the candidates of a pass come from the one list call at its start; no
\* list call is made during the pass, and the sequence changes only by losing
\* its front element, once per delete attempt and for that attempt, so it gets
\* strictly shorter and no image of the snapshot is attempted twice in a pass.
C15_Snapshot ==
    [][\A a \in Agents : AfterList(a) =>
          /\ SnapshotConsumed(a)
          /\ \/ /\ images'[a] = images[a]
                /\ \A i \in DOMAIN log'[a] : i > Len(log[a]) =>
                       log'[a][i].op \notin {"delete", "list"}
                /\ pc'[a] # "list"
             \/ /\ images[a] # <<>>
                /\ images'[a] = Tail(images[a])
                /\ Len(images'[a]) < Len(images[a])
                /\ \E o \in DeleteOutcomes :
                       log'[a] = Append(log[a], Op("delete", Head(images[a]).id, o))
          /\ AfterList(a)' => SnapshotConsumed(a)']_vars

C15_Witness ==
    \E a \in Agents :
        /\ pc[a] = "summary"
        /\ images_before[a] = MaxImages
        /\ Cardinality(Ops(a, "delete")) = MaxImages
        /\ images[a] = <<>>

\* C19: when every external call returns, a pass makes at most images_before
\* delete attempts, whatever the samples and the outcomes, and it ends: at its
\* summary, or with the process stopped by a fatal error.
C19_PassTerminates ==
    /\ [](\A a \in Agents :
             PassLog(a) => /\ Cardinality(Ops(a, "delete")) <= images_before[a]
                           /\ Len(log[a]) <= 7 + 4 * images_before[a])
    /\ \A a \in Agents : InPass(a) ~> (pc[a] \in {"summary", "crashed"})

C19_Witness ==
    \E a \in Agents :
        /\ pc[a] = "summary"
        /\ images_before[a] = MaxImages
        /\ Deletes(a, "timeout") # {}
        /\ Cardinality(Ops(a, "delete")) = images_before[a]

Sampled(a) == log'[a] = Append(log[a], Op("sample", 0, ""))

\* C18: a delete attempt is made only from the loop body, which is entered only
\* on a usage sample strictly above gc_low that was taken after the trigger
\* sample and the image list and after the previous delete attempt; a sample at
\* or below gc_low ends the pass instead, so a pass whose first sample in the
\* loop is at or below gc_low makes no delete attempt.
C18_SampleBeforeDelete ==
    [][\A a \in Agents :
          /\ (pc'[a] = "iter_cordon" /\ pc[a] # "iter_cordon")
                 => /\ pc[a] = "loop"
                    /\ PassLog(a)
                    /\ Sampled(a)
                    /\ sample'[a] > gc_low
          /\ (pc'[a] = "remove" /\ pc[a] # "remove")
                 => /\ pc[a] = "iter_cordon"
                    /\ log'[a] \in {log[a], Append(log[a], Op("cordon", 0, "ok"))}
          /\ (\E o \in DeleteOutcomes, i \in ImageIds :
                  log'[a] = Append(log[a], Op("delete", i, o)))
                 => pc[a] = "remove"
          /\ (pc[a] = "loop" /\ Sampled(a) /\ sample'[a] <= gc_low)
                 => /\ pc'[a] = "uncordon"
                    /\ images'[a] = images[a]
          /\ \A i \in {j \in DOMAIN log'[a] : log'[a][j].op = "delete"} :
                 LET k == IF log'[a][i - 1].op = "cordon" THEN i - 2 ELSE i - 1
                 IN  k >= 3 /\ log'[a][k].op = "sample"]_vars

C18_Witness ==
    \E a \in Agents :
        /\ pc[a] = "uncordon"
        /\ used[a] >= gc_high
        /\ images[a] # <<>>
        /\ sample[a] <= gc_low
        /\ log[a][Len(log[a])].op = "sample"
        /\ Ops(a, "delete") = {}

\* C16: an image whose delete ended in Conflict is not attempted again in the
\* same pass and is no longer a candidate of it; nothing about it is kept for
\* later: the candidates at the start of a pass are all the images the runtime
\* lists then, the image that ended in Conflict in an earlier pass included.
C16_ConflictSkipScope ==
    \A a \in Agents :
        /\ \A i \in Deletes(a, "409") :
               /\ log[a][i].arg \notin IdsOf(images[a])
               /\ \A j \in Ops(a, "delete") : log[a][j].arg = log[a][i].arg => j = i
        /\ pc[a] = "pass_cordon" =>
               /\ IdsOf(images[a]) = listed
               /\ skipped \in listed => skipped \in IdsOf(images[a])

C16_Witness ==
    \E a \in Agents :
        /\ pc[a] = "pass_cordon"
        /\ skipped # 0
        /\ skipped \in IdsOf(images[a])

====
